---- MODULE Spec2Model ----
(***************************************************************************)
(* rs-rtsp2web, src/main.rs: one task (main -> run -> run_inner) negotiates *)
(* an RTSP session and forwards every video frame to a                     *)
(* tokio::sync::broadcast channel; every websocket connection is an actor   *)
(* that reads the channel through a BroadcastStream and writes each frame   *)
(* to its socket.                                                           *)
(*                                                                          *)
(* The broadcast channel is the collaborator the fan-out claims are about.  *)
(* Its operations are modelled at the call sites of main.rs, as the tokio   *)
(* implementation performs them: a ring of slots addressed by pos & mask,   *)
(* a tail position, a cursor per receiver; broadcast::channel rounds the    *)
(* requested capacity up to a power of two ("the actual capacity may be     *)
(* greater than the provided capacity").                                    *)
(*                                                                          *)
(* Specifications: Spec, the whole program with the channel scaled down;    *)
(* SpecLag, the lag scenario at the program's capacity; SpecNeg, the        *)
(* negotiation over longer descriptors; SpecRelay, the bytes of the frames  *)
(* sent; SpecStop, the main task and SIGINT under the loop's scheduling.    *)
(***************************************************************************)
EXTENDS Integers, Sequences, FiniteSets, TLC

(* ------------------------------ bounds --------------------------------- *)
\* Video frames the transport delivers in one run of the scaled specification.
MaxFrames == 3
\* Items of another kind (audio, RTCP, ..) the transport delivers in one run.
MaxOther == 1
\* Websocket connections.
MaxSubs == 2
\* Capacity passed to broadcast::channel in the scaled specification Spec, in
\* place of ChannelCapacity (SpecLag runs the channel at ChannelCapacity).
SmallCapacity == 1
\* SIGINTs the environment raises.
MaxCtrlC == 1
\* Sub-streams of a session descriptor.
MaxStreams == 1
\* Frames of the fan-out lag scenario (SpecLag), counted from the subscription.
ScenarioFrames == 150
\* The scenario's connection is made while at most this many frames are out.
MaxEarly == 1
\* Sub-streams of a session descriptor in the negotiation specification SpecNeg.
MaxNegStreams == 3

\* Video frames the transport delivers in the relay specification SpecRelay.
MaxRelayFrames == 2

(* ------------------------- program constants --------------------------- *)
\* main: broadcast::channel::<Vec<u8>>(100)
ChannelCapacity == 100

Subs == 1..MaxSubs
NoItem == [kind |-> "none", seq |-> 0]
StreamKinds == {"video", "other"}

\* retina's VideoFrame as the loop sees it: data() and is_random_access_point().
\* One frame and one extra-data blob (VideoParameters::extra_data) stand for the
\* camera in Spec, SpecLag and SpecNeg; SpecRelay draws them from the sets below.
ScenarioFrame == [data |-> <<0, 0, 0, 5, 170>>, key |-> TRUE]
ScenarioExtraData == <<103, 66, 104, 206>>
FrameDatas ==
    {<<0, 0, 0, 5, 170>>, <<0, 0, 0, 1, 170>>, <<9, 9, 9, 9>>, <<0, 0, 5>>, <<7>>}
CodedFrames == [data : FrameDatas, key : BOOLEAN]
ExtraDatas ==
    {<<>>, <<103, 66, 104, 206>>, <<104, 206, 103, 66>>, <<103, 66>>,
     <<104, 206>>, <<1, 103, 104>>}

VARIABLES
    pc,          \* position of the main task: main / run / run_inner
    streams,     \* session.streams(): the kinds of the sub-streams, in order
    video_stream,\* the index run_inner selected (0: none yet)
    calls,       \* the requests made to the session, in order, with their outcome
    stop,        \* the ctrl_c() future: "unpolled", "listening", "fired"
    sigints,     \* SIGINTs raised so far
    nvideo,      \* video frames taken from videosession so far
    nother,      \* items of another kind taken from videosession so far
    item,        \* the item between videosession.next() and tx.send
    r,           \* run_inner's result ("none" while it runs)
    stopSeen,    \* where the stop branch of select! won: [pc, sends] or none
    teardowns,   \* calls of session_group.await_teardown() that completed
    teardownFailed, \* the last teardown returned Err (logged)
    ret,         \* run's result as main receives it
    exit,        \* the process: "running", or its exit status
    server,      \* the spawned HttpServer task: "spawned", "running", "failed",
                 \* "stopping" (SIGINT received), "stopped"
    capacity,    \* the capacity main asked broadcast::channel for
    buffer,      \* the channel's ring of slots [pos, val]
    tail,        \* the channel's tail position: frames accepted so far
    closed,      \* the Sender was dropped
    published,   \* the frames tx.send accepted, in order
    payloads,    \* the byte vectors tx.send accepted, in order
    sendErrors,  \* tx.send calls that returned Err (logged)
    conn,        \* per connection: "none", "accepted", "open", "closed"
    rxNext,      \* per connection: the cursor of the stream's receiver
    subAt,       \* per connection: the tail when started() resubscribed
    fellBehind,  \* per connection: its cursor was once more than `capacity` behind the tail
    socket,      \* per connection: the payloads written with ctx.binary
    lagLog,      \* per connection: the Lagged(n) items the stream yielded
    videoFrames, \* the video frames the transport delivers, in order
    extra_data   \* the extra-data blob of the session's video sub-streams

vars == <<pc, streams, video_stream, calls, stop, sigints, nvideo, nother, item, r,
          stopSeen, teardowns, teardownFailed, ret, exit, server, capacity,
          buffer, tail, closed, published, sendErrors, conn, rxNext, subAt, fellBehind,
          socket, lagLog, payloads, videoFrames, extra_data>>

ctlVars == <<pc, streams, video_stream, calls, stop, nvideo, nother, item, r, stopSeen,
             teardowns, teardownFailed, ret, exit>>
chanVars == <<capacity, buffer, tail, closed, published, payloads, sendErrors>>
wsVars == <<conn, rxNext, subAt, fellBehind, socket, lagLog>>
mediaVars == <<videoFrames, extra_data>>

(* ------------------------- broadcast channel --------------------------- *)
RECURSIVE PowerOfTwoFrom(_, _)
PowerOfTwoFrom(p, n) == IF p >= n THEN p ELSE PowerOfTwoFrom(2 * p, n)

NextPowerOfTwoExact(n) == n

\* usize::next_power_of_two, applied by broadcast::channel to the capacity.
NextPowerOfTwo(n) == PowerOfTwoFrom(1, n)

\* broadcast::channel(capacity): the ring; slot i starts at pos i - len.
NewBuffer(cap) ==
    LET len == NextPowerOfTwo(cap)
    IN  [i \in 1..len |-> [pos |-> (i - 1) - len, val |-> 0]]

BufLen == Len(buffer)

\* The slot of position p: buffer[p & mask].
SlotOf(p) == (p % BufLen) + 1

\* Receivers alive: the one in app_state (until the server task ends), the one
\* ws_index puts in each actor, and the one started() hands to the stream.
RxCount ==
    (IF server \in {"failed", "stopped"} THEN 0 ELSE 1)
    + Cardinality({i \in Subs : conn[i] \in {"accepted", "open"}})
    + Cardinality({i \in Subs : conn[i] = "open"})

\* Sender::send: with no receiver the value is handed back as Err and nothing
\* is stored; otherwise the slot of the tail position is overwritten.
SendOk == RxCount > 0

BufferAfterSend(v) ==
    [buffer EXCEPT ![SlotOf(tail)] = [pos |-> tail, val |-> v]]

\* Receiver::resubscribe: the new receiver starts at the current tail.
ResubscribeOldest(t) == IF t > BufLen THEN t - BufLen ELSE 0

Resubscribe(t) == t

\* Receiver::recv for a cursor nx: what recv_ref finds in the slot of nx.
Missed(t, nx) == (t - BufLen) - nx

\* recv hands out whatever the cursor's slot holds, its position unchecked.
RecvIgnoresPosition(nx) ==
    LET slot == buffer[SlotOf(nx)]
    IN  IF slot.pos + BufLen = nx
        THEN [kind |-> IF closed THEN "closed" ELSE "empty",
              val |-> 0, next |-> nx, n |-> 0]
        ELSE [kind |-> "ok", val |-> slot.val, next |-> nx + 1, n |-> 0]

RecvClosedFirst(nx) ==
    IF closed
    THEN [kind |-> "closed", val |-> 0, next |-> nx, n |-> 0]
    ELSE LET slot == buffer[SlotOf(nx)]
         IN  IF slot.pos = nx \/ Missed(tail, nx) = 0
             THEN [kind |-> "ok", val |-> slot.val, next |-> nx + 1, n |-> 0]
             ELSE IF slot.pos + BufLen = nx
             THEN [kind |-> "empty", val |-> 0, next |-> nx, n |-> 0]
             ELSE [kind |-> "lagged", val |-> 0, next |-> tail - BufLen,
                   n |-> Missed(tail, nx)]

Recv(nx) ==
    LET slot == buffer[SlotOf(nx)]
    IN  IF slot.pos = nx
        THEN [kind |-> "ok", val |-> slot.val, next |-> nx + 1, n |-> 0]
        ELSE IF slot.pos + BufLen = nx
        THEN [kind |-> IF closed THEN "closed" ELSE "empty",
              val |-> 0, next |-> nx, n |-> 0]
        ELSE IF Missed(tail, nx) = 0
        THEN [kind |-> "ok", val |-> slot.val, next |-> nx + 1, n |-> 0]
        ELSE [kind |-> "lagged", val |-> 0, next |-> tail - BufLen,
              n |-> Missed(tail, nx)]

(* ------------------------------- Init ---------------------------------- *)
\* main up to the call of run: the channel exists, app_state holds its first
\* receiver and the server task is spawned.
InitWith(cap) ==
    /\ pc = "describe"
    /\ streams = <<>>
    /\ video_stream = 0
    /\ calls = <<>>
    /\ stop = "unpolled"
    /\ sigints = 0
    /\ nvideo = 0
    /\ nother = 0
    /\ item = NoItem
    /\ r = "none"
    /\ stopSeen = [seen |-> FALSE, at |-> "", sends |-> 0]
    /\ teardowns = 0
    /\ teardownFailed = FALSE
    /\ ret = "none"
    /\ exit = "running"
    /\ server = "spawned"
    /\ capacity = cap
    /\ buffer = NewBuffer(cap)
    /\ tail = 0
    /\ closed = FALSE
    /\ published = <<>>
    /\ payloads = <<>>
    /\ sendErrors = 0
    /\ conn = [i \in Subs |-> "none"]
    /\ rxNext = [i \in Subs |-> 0]
    /\ subAt = [i \in Subs |-> 0]
    /\ fellBehind = [i \in Subs |-> FALSE]
    /\ socket = [i \in Subs |-> <<>>]
    /\ lagLog = [i \in Subs |-> <<>>]

\* The camera: n video frames drawn from fs, the extra-data drawn from eds.
InitMedia(n, fs, eds) ==
    /\ videoFrames \in [1..n -> fs]
    /\ extra_data \in eds

Init ==
    /\ InitWith(ChannelCapacity)
    /\ InitMedia(MaxEarly + ScenarioFrames, {ScenarioFrame}, {ScenarioExtraData})

InitScaled ==
    /\ InitWith(SmallCapacity)
    /\ InitMedia(MaxFrames, {ScenarioFrame}, {ScenarioExtraData})

InitRelay ==
    /\ InitWith(SmallCapacity)
    /\ InitMedia(MaxRelayFrames, CodedFrames, ExtraDatas)

(* ------------------------------ run_inner ------------------------------ *)
\* run_inner returns `result`: tx, moved into run_inner, is dropped, and run
\* goes on to await_teardown whatever the result is.
RunInnerDoneSkipTeardown(result) ==
    /\ r' = result
    /\ closed' = TRUE
    /\ pc' = IF result = "Ok" THEN "teardown" ELSE "return"

RunInnerDone(result) ==
    /\ r' = result
    /\ closed' = TRUE
    /\ pc' = "teardown"

StreamSeqs == UNION {[1..n -> StreamKinds] : n \in 0..MaxStreams}

\* Session::describe(...).await?
Describe(ok, ss) ==
    /\ pc = "describe" /\ exit = "running"
    /\ calls' = Append(calls, [op |-> "describe", arg |-> 0, ok |-> ok])
    /\ IF ok
       THEN /\ streams' = ss
            /\ pc' = "position"
            /\ UNCHANGED <<r, closed>>
       ELSE /\ RunInnerDone("Err:describe")
            /\ UNCHANGED streams
    /\ UNCHANGED <<video_stream, stop, sigints, nvideo, nother, item, stopSeen,
                   teardowns, teardownFailed, ret, exit, server, capacity, buffer,
                   tail,
                   published, payloads, sendErrors>>
    /\ UNCHANGED wsVars
    /\ UNCHANGED mediaVars

\* The highest index instead (rposition).
PositionLast(ss) ==
    IF \E k \in 1..Len(ss) : ss[k] = "video"
    THEN CHOOSE k \in 1..Len(ss) :
            /\ ss[k] = "video"
            /\ \A j \in (k + 1)..Len(ss) : ss[j] # "video"
    ELSE 0

\* streams().iter().position(is video): the lowest index (1-based here), 0 for None.
Position(ss) ==
    IF \E k \in 1..Len(ss) : ss[k] = "video"
    THEN CHOOSE k \in 1..Len(ss) :
            /\ ss[k] = "video"
            /\ \A j \in 1..(k - 1) : ss[j] # "video"
    ELSE 0

\* .position(..).ok_or_else(|| anyhow!("couldn't find video stream"))?
SelectVideo ==
    /\ pc = "position" /\ exit = "running"
    /\ IF Position(streams) # 0
       THEN /\ video_stream' = Position(streams)
            /\ pc' = "setup"
            /\ UNCHANGED <<r, closed>>
       ELSE /\ RunInnerDone("Err:novideo")
            /\ UNCHANGED video_stream
    /\ UNCHANGED <<streams, calls, stop, sigints, nvideo, nother, item, stopSeen,
                   teardowns, teardownFailed, ret, exit, server, capacity, buffer,
                   tail,
                   published, payloads, sendErrors>>
    /\ UNCHANGED wsVars
    /\ UNCHANGED mediaVars

\* A failed setup is tried once more before the run gives up.
SetupRetriesOnce(ok) ==
    /\ pc = "setup" /\ exit = "running"
    /\ calls' = Append(calls, [op |-> "setup", arg |-> video_stream, ok |-> ok])
    /\ IF ok
       THEN pc' = "play" /\ UNCHANGED <<r, closed>>
       ELSE IF \A k \in 1..Len(calls) : calls[k].op # "setup"
            THEN pc' = "setup" /\ UNCHANGED <<r, closed>>
            ELSE RunInnerDone("Err:setup")
    /\ UNCHANGED <<streams, video_stream, stop, sigints, nvideo, nother, item, stopSeen,
                   teardowns, teardownFailed, ret, exit, server, capacity, buffer,
                   tail,
                   published, payloads, sendErrors>>
    /\ UNCHANGED wsVars
    /\ UNCHANGED mediaVars

\* session.setup(video_stream, ..).await?
Setup(ok) ==
    /\ pc = "setup" /\ exit = "running"
    /\ calls' = Append(calls, [op |-> "setup", arg |-> video_stream, ok |-> ok])
    /\ IF ok
       THEN pc' = "play" /\ UNCHANGED <<r, closed>>
       ELSE RunInnerDone("Err:setup")
    /\ UNCHANGED <<streams, video_stream, stop, sigints, nvideo, nother, item, stopSeen,
                   teardowns, teardownFailed, ret, exit, server, capacity, buffer,
                   tail,
                   published, payloads, sendErrors>>
    /\ UNCHANGED wsVars
    /\ UNCHANGED mediaVars

\* session.play(..).await?.demuxed()?
Play(ok) ==
    /\ pc = "play" /\ exit = "running"
    /\ calls' = Append(calls, [op |-> "play", arg |-> 0, ok |-> ok])
    /\ IF ok
       THEN pc' = "loop" /\ UNCHANGED <<r, closed>>
       ELSE RunInnerDone("Err:play")
    /\ UNCHANGED <<streams, video_stream, stop, sigints, nvideo, nother, item, stopSeen,
                   teardowns, teardownFailed, ret, exit, server, capacity, buffer,
                   tail,
                   published, payloads, sendErrors>>
    /\ UNCHANGED wsVars
    /\ UNCHANGED mediaVars

(* --------------------------- the select! loop -------------------------- *)
\* The stop branch of select! is taken only where the loop awaits: at the
\* select!, never between videosession.next() and tx.send.
StopPointMidFrame(p) == p \in {"loop", "publish"}

StopPoint(p) == p = "loop"

\* item.ok_or_else(|| anyhow!("EOF"))??: what ends run_inner.
ItemResultEofBreaks(kind) ==
    IF kind = "eof" THEN "Ok" ELSE "Err:item"

ItemResult(kind) ==
    IF kind = "eof" THEN "Err:EOF" ELSE "Err:item"

\* select! polls its branches in random order and stops at the first that is
\* ready: a poll that finds an item may or may not have polled `stop` before.
\* ctrl_c() registers its listener when it is first polled.
StopAfterPoll(polled) ==
    IF stop = "unpolled" /\ polled THEN "listening" ELSE stop

\* select! with no branch ready: both were polled, the task suspends.
PollPending ==
    /\ pc = "loop" /\ exit = "running"
    /\ stop = "unpolled"
    /\ stop' = "listening"
    /\ UNCHANGED <<pc, streams, video_stream, calls, sigints, nvideo, nother, item, r,
                   stopSeen, teardowns, teardownFailed, ret, exit, server>>
    /\ UNCHANGED chanVars
    /\ UNCHANGED wsVars
    /\ UNCHANGED mediaVars

\* An item of another kind ends the loop (_ => bail!) instead of `continue`.
NextItemOtherEnds(kind, polled, limit) ==
    /\ pc = "loop" /\ exit = "running"
    /\ stop' = StopAfterPoll(polled)
    /\ CASE kind = "video" ->
              /\ nvideo < limit /\ nvideo < Len(videoFrames)
              /\ nvideo' = nvideo + 1
              /\ item' = [kind |-> "video", seq |-> nvideo + 1]
              /\ pc' = "publish"
              /\ UNCHANGED <<nother, r, closed>>
         [] kind = "other" ->
              /\ nother < MaxOther
              /\ nother' = nother + 1
              /\ RunInnerDone("Err:item")
              /\ UNCHANGED <<nvideo, item>>
         [] OTHER ->
              /\ RunInnerDone(ItemResult(kind))
              /\ UNCHANGED <<nvideo, nother, item>>
    /\ UNCHANGED <<streams, video_stream, calls, sigints, stopSeen, teardowns,
                   teardownFailed, ret, exit, server, capacity, buffer,
                   tail, published, payloads,
                   sendErrors>>
    /\ UNCHANGED wsVars
    /\ UNCHANGED mediaVars

\* item = videosession.next() => match item.ok_or_else(..)?? { .. }
\* kinds: the items the transport may deliver; limit: how many it delivers.
NextItem(kind, polled, limit) ==
    /\ pc = "loop" /\ exit = "running"
    /\ stop' = StopAfterPoll(polled)
    /\ CASE kind = "video" ->
              /\ nvideo < limit /\ nvideo < Len(videoFrames)
              /\ nvideo' = nvideo + 1
              /\ item' = [kind |-> "video", seq |-> nvideo + 1]
              /\ pc' = "publish"
              /\ UNCHANGED <<nother, r, closed>>
         [] kind = "other" ->
              \* _ => continue
              /\ nother < MaxOther
              /\ nother' = nother + 1
              /\ pc' = "loop"
              /\ UNCHANGED <<nvideo, item, r, closed>>
         [] OTHER ->
              /\ RunInnerDone(ItemResult(kind))
              /\ UNCHANGED <<nvideo, nother, item>>
    /\ UNCHANGED <<streams, video_stream, calls, sigints, stopSeen, teardowns,
                   teardownFailed, ret, exit, server, capacity, buffer,
                   tail, published, payloads,
                   sendErrors>>
    /\ UNCHANGED wsVars
    /\ UNCHANGED mediaVars

\* Sender::send is a plain function: it takes the tail lock and returns.
SendReadyBackpressure ==
    \A i \in Subs : conn[i] = "open" => tail - rxNext[i] < BufLen

SendReady == TRUE

\* if let Err(e) = tx.send(..) { error!(..) }: the result is logged only.
OnSendResultPropagate(ok) ==
    IF ok
    THEN pc' = "loop" /\ UNCHANGED <<r, closed>>
    ELSE RunInnerDone("Err:send")

OnSendResult(ok) ==
    pc' = "loop" /\ UNCHANGED <<r, closed>>

\* The cursors' lag after a send moved the tail to t.
BehindAfter(t) ==
    [i \in Subs |-> IF conn[i] = "open"
                    THEN fellBehind[i] \/ t - rxNext[i] > capacity
                    ELSE fellBehind[i]]

\* m.data(): the frame's bytes as retina delivered them.
Data(m) == videoFrames[m.seq].data

\* tx.send(m.data().to_vec())
Publish ==
    /\ pc = "publish" /\ exit = "running"
    /\ SendReady
    /\ IF SendOk
       THEN /\ buffer' = BufferAfterSend(item.seq)
            /\ tail' = tail + 1
            /\ published' = Append(published, item.seq)
            /\ payloads' = Append(payloads, Data(item))
            /\ fellBehind' = BehindAfter(tail + 1)
            /\ UNCHANGED sendErrors
       ELSE /\ sendErrors' = sendErrors + 1
            /\ UNCHANGED <<buffer, tail, published, payloads, fellBehind>>
    /\ OnSendResult(SendOk)
    /\ item' = NoItem
    /\ UNCHANGED <<streams, video_stream, calls, stop, sigints, nvideo,
                   nother, stopSeen, teardowns, teardownFailed, ret, exit,
                   server, capacity>>
    /\ UNCHANGED <<conn, rxNext, subAt, socket, lagLog>>
    /\ UNCHANGED mediaVars

\* The negotiation's awaits raced against the stop signal as well.
StopObservedNegotiating ==
    /\ pc \in {"setup", "play", "loop"} /\ exit = "running"
    /\ r = "none"
    /\ stop = "fired" \/ (pc # "loop" /\ sigints > 0)
    /\ stopSeen' = [seen |-> TRUE, at |-> pc,
                    sends |-> Len(published) + sendErrors]
    /\ RunInnerDone("Ok")
    /\ UNCHANGED <<streams, video_stream, calls, stop, sigints, nvideo, nother, item,
                   teardowns, teardownFailed, ret, exit, server, capacity, buffer,
                   tail,
                   published, payloads, sendErrors>>
    /\ UNCHANGED wsVars
    /\ UNCHANGED mediaVars

\* _ = &mut stop => break; then Ok(())
StopObserved ==
    /\ StopPoint(pc) /\ exit = "running"
    /\ r = "none"
    /\ stop = "fired"
    /\ stopSeen' = [seen |-> TRUE, at |-> pc,
                    sends |-> Len(published) + sendErrors]
    /\ RunInnerDone("Ok")
    /\ UNCHANGED <<streams, video_stream, calls, stop, sigints, nvideo, nother, item,
                   teardowns, teardownFailed, ret, exit, server, capacity, buffer,
                   tail,
                   published, payloads, sendErrors>>
    /\ UNCHANGED wsVars
    /\ UNCHANGED mediaVars

\* tokio installs the process's SIGINT handler when a first listener registers
\* and keeps it: ctrl_c() registers at its first poll, actix's HttpServer (which
\* listens to signals unless disable_signals is called) when it runs.
SigintHandled == stop # "unpolled" \/ server \in {"running", "stopping", "stopped"}

\* SIGINT: completes the ctrl_c() future if its listener is registered (a
\* signal raised before the first poll is not seen by this future) and makes a
\* running HttpServer stop; with no handler installed yet the default action
\* ends the process.
CtrlC ==
    /\ exit = "running"
    /\ sigints < MaxCtrlC
    /\ sigints' = sigints + 1
    /\ IF SigintHandled
       THEN /\ stop' = IF stop = "listening" THEN "fired" ELSE stop
            /\ server' = IF server = "running" THEN "stopping" ELSE server
            /\ UNCHANGED exit
       ELSE /\ exit' = "sigint"
            /\ UNCHANGED <<stop, server>>
    /\ UNCHANGED <<pc, streams, video_stream, calls, nvideo, nother, item, r, stopSeen,
                   teardowns, teardownFailed, ret>>
    /\ UNCHANGED chanVars
    /\ UNCHANGED wsVars
    /\ UNCHANGED mediaVars

(* --------------------------------- run --------------------------------- *)
\* if let Err(e) = session_group.await_teardown().await { error!(..) }
Teardown(ok) ==
    /\ pc = "teardown" /\ exit = "running"
    /\ teardowns' = teardowns + 1
    /\ teardownFailed' = ~ok
    /\ calls' = Append(calls, [op |-> "teardown", arg |-> 0, ok |-> ok])
    /\ pc' = "return"
    /\ UNCHANGED <<streams, video_stream, stop, sigints, nvideo, nother, item, r,
                   stopSeen, ret, exit, server>>
    /\ UNCHANGED chanVars
    /\ UNCHANGED wsVars
    /\ UNCHANGED mediaVars

\* run's last expression: r, whatever await_teardown returned.
RunResultTeardownMasks(rr, tdFailed) ==
    IF tdFailed THEN "Err:teardown" ELSE rr

RunResult(rr, tdFailed) == rr

RunReturn ==
    /\ pc = "return" /\ exit = "running"
    /\ ret' = RunResult(r, teardownFailed)
    /\ pc' = "main"
    /\ UNCHANGED <<streams, video_stream, calls, stop, sigints, nvideo, nother, item, r,
                   stopSeen, teardowns, teardownFailed, exit, server>>
    /\ UNCHANGED chanVars
    /\ UNCHANGED wsVars
    /\ UNCHANGED mediaVars

\* main: Err => exit(1); Ok => "Done", main returns and the process ends.
ExitStatus(res) == IF res = "Ok" THEN "status0" ELSE "status1"

MainExit ==
    /\ pc = "main" /\ exit = "running"
    /\ exit' = ExitStatus(ret)
    /\ pc' = "exited"
    /\ UNCHANGED <<streams, video_stream, calls, stop, sigints, nvideo, nother, item, r,
                   stopSeen, teardowns, teardownFailed, ret, server>>
    /\ UNCHANGED chanVars
    /\ UNCHANGED wsVars
    /\ UNCHANGED mediaVars

(* ------------------------- server and websockets ----------------------- *)
\* The spawned task: HttpServer::new(..).bind(("0.0.0.0", 8080)).unwrap().
\* A failed bind panics the task, which drops app_state and its receiver.
\* (Each worker's app_state.clone() adds receivers that never consume; they
\* live no longer than app_state and change no count from zero to non-zero.)
ServerBind(ok) ==
    /\ server = "spawned" /\ exit = "running"
    /\ server' = IF ok THEN "running" ELSE "failed"
    /\ UNCHANGED ctlVars
    /\ UNCHANGED sigints
    /\ UNCHANGED chanVars
    /\ UNCHANGED wsVars
    /\ UNCHANGED mediaVars

\* The HttpServer stops after SIGINT: run() completes, the task ends and drops
\* the factory with app_state. Connections end as clients see them closed.
ServerStop ==
    /\ server = "stopping" /\ exit = "running"
    /\ server' = "stopped"
    /\ UNCHANGED ctlVars
    /\ UNCHANGED sigints
    /\ UNCHANGED chanVars
    /\ UNCHANGED wsVars
    /\ UNCHANGED mediaVars

\* ws_index: data.rx.resubscribe(), MyWs::new(rx), ws::start(..). Connections
\* take the indices in order. early: the latest tail at which it may happen.
WsIndex(i, early) ==
    /\ server = "running" /\ exit = "running"
    /\ conn[i] = "none"
    /\ \A j \in 1..(i - 1) : conn[j] # "none"
    /\ tail <= early
    /\ conn' = [conn EXCEPT ![i] = "accepted"]
    /\ UNCHANGED ctlVars
    /\ UNCHANGED <<sigints, server>>
    /\ UNCHANGED chanVars
    /\ UNCHANGED <<rxNext, subAt, fellBehind, socket, lagLog>>
    /\ UNCHANGED mediaVars

\* MyWs::started: self.rx.resubscribe(), BroadcastStream::new, ctx.add_stream.
WsStarted(i, early) ==
    /\ conn[i] = "accepted" /\ exit = "running"
    /\ tail <= early
    /\ conn' = [conn EXCEPT ![i] = "open"]
    /\ rxNext' = [rxNext EXCEPT ![i] = Resubscribe(tail)]
    /\ subAt' = [subAt EXCEPT ![i] = tail]
    /\ UNCHANGED ctlVars
    /\ UNCHANGED <<sigints, server>>
    /\ UNCHANGED chanVars
    /\ UNCHANGED <<fellBehind, socket, lagLog>>
    /\ UNCHANGED mediaVars

\* Each receiver has its own cursor: a recv moves that cursor alone.
CursorsAfterShared(i, nx) ==
    [j \in Subs |-> IF j = i \/ conn[j] = "open" THEN nx ELSE rxNext[j]]

CursorsAfter(i, nx) == [rxNext EXCEPT ![i] = nx]

\* StreamHandler<Result<Vec<u8>, BroadcastStreamRecvError>>::handle:
\* Ok(msg) => ctx.binary(msg), _ => ().
SocketAfter(sock, res) ==
    IF res.kind = "ok" THEN Append(sock, res.val) ELSE sock

\* The actor after an item of its stream: it goes on after Ok and after
\* Err(Lagged); the end of the stream (Closed) runs finished(), ctx.stop().
ConnAfterStopsOnErr(kind) == IF kind = "ok" THEN "open" ELSE "closed"

ConnAfter(kind) == IF kind = "closed" THEN "closed" ELSE "open"

\* One item of the actor's BroadcastStream, handled. from: the tail before
\* which the actor's task is not scheduled (0: it may run at any time).
Consume(i, from) ==
    /\ conn[i] = "open" /\ exit = "running"
    /\ tail >= from
    /\ LET res == Recv(rxNext[i])
       IN  /\ res.kind # "empty"
           /\ rxNext' = CursorsAfter(i, res.next)
           /\ socket' = [socket EXCEPT ![i] = SocketAfter(@, res)]
           /\ lagLog' = [lagLog EXCEPT ![i] =
                            IF res.kind = "lagged"
                            THEN Append(@, [n |-> res.n, at |-> tail,
                                            got |-> Len(socket[i]),
                                            resume |-> res.next])
                            ELSE @]
           /\ conn' = [conn EXCEPT ![i] = ConnAfter(res.kind)]
    /\ UNCHANGED ctlVars
    /\ UNCHANGED <<sigints, server>>
    /\ UNCHANGED chanVars
    /\ UNCHANGED <<subAt, fellBehind>>
    /\ UNCHANGED mediaVars

\* The client closes the connection: the actor stops, its receivers drop.
Disconnect(i) ==
    /\ conn[i] \in {"accepted", "open"} /\ exit = "running"
    /\ conn' = [conn EXCEPT ![i] = "closed"]
    /\ UNCHANGED ctlVars
    /\ UNCHANGED <<sigints, server>>
    /\ UNCHANGED chanVars
    /\ UNCHANGED <<rxNext, subAt, fellBehind, socket, lagLog>>
    /\ UNCHANGED mediaVars

(* --------------------------- specifications ---------------------------- *)
ItemKinds == {"video", "other", "err", "eof"}

\* The whole program, the channel scaled to SmallCapacity.
Next ==
    \/ \E ok \in BOOLEAN, ss \in StreamSeqs : Describe(ok, ss)
    \/ SelectVideo
    \/ \E ok \in BOOLEAN : Setup(ok)
    \/ \E ok \in BOOLEAN : Play(ok)
    \/ PollPending
    \/ \E kind \in ItemKinds, polled \in BOOLEAN :
          NextItem(kind, polled, MaxFrames)
    \/ Publish
    \/ StopObserved
    \/ CtrlC
    \/ \E ok \in BOOLEAN : Teardown(ok)
    \/ RunReturn
    \/ MainExit
    \/ \E ok \in BOOLEAN : ServerBind(ok)
    \/ ServerStop
    \/ \E i \in Subs : WsIndex(i, MaxFrames)
    \/ \E i \in Subs : WsStarted(i, MaxFrames)
    \/ \E i \in Subs : Consume(i, 0)
    \/ \E i \in Subs : Disconnect(i)

Spec == InitScaled /\ [][Next]_vars

\* The fan-out lag scenario at the program's own capacity: a session with one
\* video sub-stream delivers video frames only, one connection is made while at
\* most MaxEarly frames are out, and it consumes nothing until ScenarioFrames
\* frames are published.
LagStreams == <<"video">>

NextLag ==
    \/ Describe(TRUE, LagStreams)
    \/ SelectVideo
    \/ Setup(TRUE)
    \/ Play(TRUE)
    \/ NextItem("video", TRUE, MaxEarly + ScenarioFrames)
    \/ Publish
    \/ ServerBind(TRUE)
    \/ WsIndex(1, MaxEarly)
    \/ WsStarted(1, MaxEarly)
    \/ Consume(1, ScenarioFrames)

SpecLag == Init /\ [][NextLag]_vars

\* The negotiation with descriptors of up to MaxNegStreams sub-streams: the main
\* task alone, the transport delivering at most one video frame.
NegStreamSeqs == UNION {[1..n -> StreamKinds] : n \in 0..MaxNegStreams}

NextNeg ==
    \/ \E ok \in BOOLEAN, ss \in NegStreamSeqs : Describe(ok, ss)
    \/ SelectVideo
    \/ \E ok \in BOOLEAN : Setup(ok)
    \/ \E ok \in BOOLEAN : Play(ok)
    \/ \E kind \in ItemKinds : NextItem(kind, TRUE, 1)
    \/ Publish
    \/ \E ok \in BOOLEAN : Teardown(ok)
    \/ RunReturn
    \/ MainExit
    \/ ServerBind(TRUE)

SpecNeg == InitScaled /\ [][NextNeg]_vars

\* The relay of frames: the main task with a camera whose frames and extra-data
\* are drawn from CodedFrames and ExtraDatas, and the server's own receiver.
NextRelay ==
    \/ Describe(TRUE, LagStreams)
    \/ SelectVideo
    \/ Setup(TRUE)
    \/ Play(TRUE)
    \/ NextItem("video", TRUE, MaxRelayFrames)
    \/ Publish
    \/ ServerBind(TRUE)

SpecRelay == InitRelay /\ [][NextRelay]_vars

\* The main task, the server task and SIGINT, with the scheduling the loop
\* relies on: tx.send and what follows it run without awaiting (the task goes
\* on: weak fairness), and select! polls its branches in random order, so a
\* stop branch that is ready again and again is taken in the end (strong
\* fairness). Nothing is assumed of the transport or of the signals.
NextStop ==
    \/ \E ok \in BOOLEAN, ss \in StreamSeqs : Describe(ok, ss)
    \/ SelectVideo
    \/ \E ok \in BOOLEAN : Setup(ok)
    \/ \E ok \in BOOLEAN : Play(ok)
    \/ PollPending
    \/ \E kind \in ItemKinds, polled \in BOOLEAN :
          NextItem(kind, polled, MaxFrames)
    \/ Publish
    \/ StopObserved
    \/ CtrlC
    \/ \E ok \in BOOLEAN : Teardown(ok)
    \/ RunReturn
    \/ MainExit
    \/ \E ok \in BOOLEAN : ServerBind(ok)
    \/ ServerStop

SpecStop ==
    /\ InitScaled
    /\ [][NextStop]_vars
    /\ WF_vars(Publish)
    /\ SF_vars(StopObserved)

(* ------------------------------- claims -------------------------------- *)
ExitResults ==
    {"Ok", "Err:describe", "Err:novideo", "Err:setup", "Err:play", "Err:EOF",
     "Err:item"}

\* C1: on every exit path of run, await_teardown is awaited exactly once,
\* after run_inner has finished (r is set) and before run returns (ret is set);
\* it is the last request made on the session.
C1_TeardownOnceOnEveryExit ==
    /\ teardowns <= 1
    /\ r \in ExitResults \cup {"none"}
    /\ (r = "none" => teardowns = 0)
    /\ (teardowns = 1 => calls[Len(calls)].op = "teardown")
    /\ (pc = "teardown" => r # "none" /\ teardowns = 0 /\ ret = "none")
    /\ (ret # "none" => r # "none" /\ teardowns = 1)
    /\ (exit \in {"status0", "status1"} => ret # "none")

\* C1 witness: a run that failed for want of a video sub-stream has returned,
\* torn down once.
C1_Witness ==
    /\ ret = "Err:novideo"
    /\ teardowns = 1
    /\ exit = "status1"

\* C2: run returns exactly run_inner's result, whether teardown failed or not.
C2_ResultIsRunInners ==
    ret # "none" => ret = r /\ ret \in ExitResults

\* C2 witness: teardown failed after a stopped run, and run returned Ok.
C2_Witness ==
    /\ teardownFailed
    /\ r = "Ok"
    /\ ret = "Ok"

\* C3: run returns Ok if and only if the loop was left by the stop branch;
\* every other way out of run_inner is an error, and the process exits with a
\* non-zero status exactly when run returned an error.
C3_OkOnlyWhenStopped ==
    /\ (r # "none" => (r = "Ok" <=> stopSeen.seen))
    /\ (ret # "none" => (ret = "Ok" <=> stopSeen.seen))
    /\ (exit = "status1" <=> (pc = "exited" /\ ret # "Ok"))
    /\ (exit = "status0" <=> (pc = "exited" /\ ret = "Ok"))
    /\ (exit = "status1" => ~stopSeen.seen)
    /\ (exit = "status0" => stopSeen.seen)

\* C3 witness: the stream ended (EOF) and the process exited with status 1.
C3_Witness ==
    /\ ret = "Err:EOF"
    /\ exit = "status1"
    /\ ~stopSeen.seen

\* C4: whenever the pipeline holds a frame to publish, the publish step can be
\* taken at once and leaves the pipeline awaiting the next frame, whatever the
\* receivers' cursors are.
C4_PublishNeverWaits ==
    (pc = "publish" /\ exit = "running") =>
        ENABLED (Publish /\ pc' = "loop" /\ r' = "none")

\* C4 witness: a frame is about to be published while one subscriber's cursor
\* is a whole ring behind and another connection's receiver never consumes.
C4_Witness ==
    /\ pc = "publish"
    /\ \E i \in Subs : conn[i] = "open" /\ tail - rxNext[i] >= BufLen
    /\ \E j \in Subs : conn[j] = "accepted"

NoSubscriber == \A i \in Subs : conn[i] # "open"
NoReceiver == server \in {"failed", "stopped"} /\ \A i \in Subs : conn[i] \in {"none", "closed"}
PublishStep == pc = "publish" /\ pc' # "publish"

\* C5 as amended: a publish with no subscriber never ends or fails the run and
\* the loop awaits the next frame; the send succeeds while a receiver exists
\* (the server's own), and with no receiver at all it returns an error that is
\* logged and dropped.
C5_NoSubscriberPublish ==
    [][(PublishStep /\ NoSubscriber) =>
          /\ pc' = "loop"
          /\ r' = "none"
          /\ ~closed'
          /\ IF NoReceiver
             THEN sendErrors' = sendErrors + 1 /\ published' = published
             ELSE /\ sendErrors' = sendErrors
                  /\ published' = Append(published, item.seq)]_vars

\* C5 witness: with no connection ever made, one frame was accepted by the
\* channel and one was refused and logged, and the loop awaits the next one.
C5_Witness ==
    /\ NoSubscriber
    /\ \A i \in Subs : socket[i] = <<>> /\ conn[i] = "none"
    /\ Len(published) > 0
    /\ sendErrors > 0
    /\ pc = "loop"

\* C5 as stated: a publish with no subscriber is a success, not an error.
C5_Original ==
    [][(PublishStep /\ NoSubscriber) =>
          /\ pc' = "loop"
          /\ r' = "none"
          /\ sendErrors' = sendErrors]_vars

\* C6: every frame a connection delivers was published after its subscription
\* was created in started().
C6_NoReplay ==
    \A i \in Subs : \A k \in 1..Len(socket[i]) :
        \E p \in (subAt[i] + 1)..Len(published) : published[p] = socket[i][k]

\* C6 witness: a connection subscribed after frames were published and has
\* delivered a frame.
C6_Witness ==
    \E i \in Subs : subAt[i] > 0 /\ Len(socket[i]) > 0

\* The first consume of connection i, made with nothing consumed before and
\* exactly `frames` frames published since it subscribed, found the cursor lagged.
FirstConsumeLagged(i, frames) ==
    /\ lagLog[i] # <<>>
    /\ lagLog[i][1].got = 0
    /\ lagLog[i][1].at - subAt[i] = frames

\* Connection i delivered its first frame right after that report, no other
\* Lagged item coming in between.
FirstFrameFollows(i) ==
    /\ socket[i] # <<>>
    /\ \A k \in 2..Len(lagLog[i]) : lagLog[i][k].got >= 1

\* A connection that subscribed, consumed nothing and has `frames` frames
\* published since.
Idle(i, frames) ==
    /\ conn[i] = "open"
    /\ socket[i] = <<>>
    /\ lagLog[i] = <<>>
    /\ tail - subAt[i] = frames

\* C7 as amended: channel(100) has a ring of 128 slots, so a subscription that
\* consumes nothing while 150 frames are published gets Lagged(22) on its next
\* consume, and the frame it receives next, no further lag being reported in
\* between, is publish #23.
C7_LagAfter150 ==
    \A i \in Subs :
        /\ (Idle(i, 150) =>
               /\ capacity = 100
               /\ Recv(rxNext[i]).kind = "lagged" /\ Recv(rxNext[i]).n = 22)
        /\ (FirstConsumeLagged(i, 150) =>
               /\ capacity = 100 /\ BufLen = 128
               /\ lagLog[i][1].n = 22
               /\ lagLog[i][1].resume = subAt[i] + 22
               /\ (FirstFrameFollows(i) =>
                      socket[i][1] = published[subAt[i] + 23]))

\* C7 witness: after 150 frames with no consumption the connection consumed
\* twice: the lag report, then a frame.
C7_Witness ==
    /\ FirstConsumeLagged(1, 150)
    /\ FirstFrameFollows(1)
    /\ Len(lagLog[1]) = 1
    /\ Len(socket[1]) = 1

\* C7 as stated: Lagged(50), then publish #101.
C7_Original ==
    \A i \in Subs :
        /\ (Idle(i, 150) =>
               Recv(rxNext[i]).kind = "lagged" /\ Recv(rxNext[i]).n = 50)
        /\ (FirstConsumeLagged(i, 150) =>
               /\ lagLog[i][1].n = 50
               /\ (FirstFrameFollows(i) =>
                      socket[i][1] = published[subAt[i] + 101]))

LagStep(i) == Len(lagLog'[i]) > Len(lagLog[i])

\* The frames connection i delivered after its last Lagged item are the
\* published frames from the position the cursor resumed at, one by one.
ResumedInOrder(i) ==
    lagLog[i] # <<>> =>
        LET last == lagLog[i][Len(lagLog[i])]
        IN  /\ rxNext[i] = last.resume + (Len(socket[i]) - last.got)
            /\ \A k \in (last.got + 1)..Len(socket[i]) :
                   socket[i][k] = published[last.resume + (k - last.got)]

\* C8: when a subscription reports Lagged(n), nothing is written to its
\* socket, the connection stays open, its cursor is at the oldest frame still
\* buffered, which its next consume delivers; and what it delivers from then
\* on are the buffered and later frames in order.
C8_LaggedNonFatal ==
    [][\A i \in Subs :
          /\ LagStep(i) =>
                /\ socket'[i] = socket[i]
                /\ conn'[i] = "open"
                /\ rxNext'[i] = tail - BufLen
                /\ lagLog'[i][Len(lagLog'[i])].n = rxNext'[i] - rxNext[i]
                /\ lagLog'[i][Len(lagLog'[i])].n > 0
                /\ ENABLED Consume(i, 0)
          /\ ResumedInOrder(i)'
          /\ (conn[i] = "open" /\ conn'[i] = "closed" /\ ~closed
                 => UNCHANGED <<rxNext, socket, lagLog>>)]_vars

\* C8 witness: a connection that lagged has since delivered the frame that was
\* buffered and the one published after the lag, and is still open.
C8_Witness ==
    \E i \in Subs :
        /\ conn[i] = "open"
        /\ Len(lagLog[i]) = 1
        /\ Len(socket[i]) >= lagLog[i][1].got + 2
        /\ socket[i][Len(socket[i])] > lagLog[i][1].at

\* C9: a connection whose cursor was never more than `capacity` frames behind
\* the tail has delivered every frame published since it subscribed, up to its
\* cursor, and the rest is still buffered for it, whatever happened to others.
C9_LagIsolated ==
    \A i \in Subs :
        (conn[i] \in {"open", "closed"} /\ ~fellBehind[i]) =>
            /\ lagLog[i] = <<>>
            /\ rxNext[i] \in subAt[i]..tail
            /\ socket[i] = SubSeq(published, subAt[i] + 1, rxNext[i])
            /\ (conn[i] = "open" => Recv(rxNext[i]).kind # "lagged")

\* C9 witness: one connection lagged and lost frames while another, never
\* behind by more than the capacity, has delivered all three frames.
C9_Witness ==
    \E i, j \in Subs :
        /\ i # j
        /\ conn[i] = "open" /\ ~fellBehind[i]
        /\ subAt[i] = 0 /\ Len(socket[i]) = 3
        /\ lagLog[j] # <<>>
        /\ subAt[j] = 0

\* C10: the stop branch is taken only while the loop awaits an item, never
\* between receiving a frame and publishing it; from then on run_inner's result
\* is Ok, no frame is sent, teardown runs once and run returns Ok.
C10_StopBetweenFrames ==
    [][/\ (stopSeen'.seen /\ ~stopSeen.seen) =>
             /\ pc = "loop" /\ item = NoItem
             /\ stop = "fired"
             /\ r = "none" /\ r' = "Ok"
             /\ pc' = "teardown"
       /\ (stopSeen.seen =>
             /\ stopSeen' = stopSeen
             /\ r' = "Ok"
             /\ published' = published /\ sendErrors' = sendErrors
             /\ Len(published') + sendErrors' = stopSeen.sends
             /\ pc' \notin {"loop", "publish"}
             /\ teardowns' <= 1
             /\ (ret' # "none" => ret' = "Ok" /\ teardowns' = 1)
             /\ exit' # "status1")]_vars

\* C10 witness: the stop signal was observed after a frame was published, and
\* run has returned Ok after one teardown.
C10_Witness ==
    /\ stopSeen.seen
    /\ stopSeen.sends > 0
    /\ ret = "Ok"
    /\ teardowns = 1
    /\ exit = "status0"

\* The next item of connection i's stream is its end (None): finished() stops
\* the actor.
StreamEnds(i) ==
    conn[i] = "open" /\ exit = "running" /\ Recv(rxNext[i]).kind = "closed"

\* The positions still in the ring that were sent after connection i subscribed.
BufferedFor(i) ==
    {p \in 0..(tail - 1) : p >= subAt[i] /\ p >= tail - BufLen}

\* Connection i's socket ends with the frames of BufferedFor(i), in order.
DrainedTo(i) ==
    LET n == Cardinality(BufferedFor(i))
        len == Len(socket[i])
    IN  /\ len >= n
        /\ SubSeq(socket[i], len - n + 1, len) = SubSeq(published, tail - n + 1, tail)

\* C11: once the Sender is dropped (run_inner returned), a subscription's
\* stream is never left waiting: its next item is a buffered frame, a lag
\* report or its end; and it ends only when the Sender is dropped and the
\* subscription has received every frame then still buffered for it.
C11_CloseEndsAfterDrain ==
    \A i \in Subs :
        /\ (closed /\ conn[i] = "open" /\ exit = "running") =>
              /\ ENABLED Consume(i, 0)
              /\ Recv(rxNext[i]).kind = "closed" <=> rxNext[i] = tail
        /\ StreamEnds(i) =>
              /\ closed /\ r # "none"
              /\ rxNext[i] = tail
              /\ DrainedTo(i)
              /\ ENABLED (Consume(i, 0) /\ conn'[i] = "closed")

\* C11 witness: run_inner has returned, and a subscription that received the
\* frames buffered for it is about to end.
C11_Witness ==
    \E i \in Subs :
        /\ StreamEnds(i)
        /\ BufferedFor(i) # {}
        /\ Len(published) > Cardinality(BufferedFor(i))
        /\ socket[i] # <<>>

\* The requests of kind op made to the session so far.
CallsOf(op) == {k \in 1..Len(calls) : calls[k].op = op}

HasVideo(ss) == \E k \in 1..Len(ss) : ss[k] = "video"

\* C12: setup is requested once at most, and for the lowest-index sub-stream
\* of kind video; when the descriptor has no video sub-stream the run fails
\* with the no-video error, neither setup nor play is requested and no frame
\* is taken from the transport or published.
C12_SetupLowestVideo ==
    /\ Cardinality(CallsOf("setup")) <= 1
    /\ \A k \in CallsOf("setup") :
          /\ calls[k].arg \in 1..Len(streams)
          /\ streams[calls[k].arg] = "video"
          /\ \A j \in 1..(calls[k].arg - 1) : streams[j] # "video"
    /\ (CallsOf("describe") # {} /\ pc # "position" /\ r # "Err:describe"
        /\ ~HasVideo(streams)) =>
          /\ r = "Err:novideo"
          /\ CallsOf("setup") = {} /\ CallsOf("play") = {}
          /\ nvideo = 0 /\ published = <<>> /\ sendErrors = 0
          /\ ret \in {"none", "Err:novideo"}
          /\ exit # "status0"
    /\ (r = "Err:novideo" => ~HasVideo(streams) /\ video_stream = 0)

\* C12 witness: of two video sub-streams behind one of another kind, the first
\* was set up and a frame of it was published.
C12_Witness ==
    /\ streams = <<"other", "video", "video">>
    /\ \E k \in CallsOf("setup") : calls[k].arg = 2
    /\ Len(published) = 1

(* The relay frame of the specification, sections 4.2 and 4.3. *)
StartCode == <<0, 0, 0, 1>>

\* The first position of blob whose byte b has b & 0x1F = v, 0 if there is none.
FirstMarker(blob, v) ==
    IF \E k \in 1..Len(blob) : blob[k] % 32 = v
    THEN CHOOSE k \in 1..Len(blob) :
            /\ blob[k] % 32 = v
            /\ \A j \in 1..(k - 1) : blob[j] % 32 # v
    ELSE 0

ConfigurationPacket(blob) ==
    LET p1 == FirstMarker(blob, 7)
        p2 == FirstMarker(blob, 8)
    IN  IF p1 # 0 /\ p2 # 0 /\ p1 < p2
        THEN StartCode \o SubSeq(blob, p1, p2 - 1)
                 \o StartCode \o SubSeq(blob, p2, Len(blob))
        ELSE <<>>

IsPrefix(a, b) == Len(a) <= Len(b) /\ SubSeq(b, 1, Len(a)) = a

\* The k-th published frame as the transport delivered it.
Source(k) == videoFrames[published[k]]

\* The published payload's frame part (as long as the frame's own payload, the
\* start code taking the place of the four-byte length) and what precedes it.
FramePart(k) ==
    SubSeq(payloads[k], Len(payloads[k]) - Len(Source(k).data) + 1,
           Len(payloads[k]))
ConfigPart(k) ==
    SubSeq(payloads[k], 1, Len(payloads[k]) - Len(Source(k).data))

\* C13: every payload published for a frame that is a random access point has
\* the Configuration Packet of the session's extra-data as a byte-prefix.
C13_KeyframeHasConfigPrefix ==
    \A k \in 1..Len(payloads) :
        Source(k).key => IsPrefix(ConfigurationPacket(extra_data), payloads[k])

\* C14: the frame part of the payload published for a frame of more than three
\* bytes is 00 00 00 01 followed by the frame's bytes from offset 4 on; a frame
\* of three bytes or fewer is published as it is.
C14_StartCodeReplacesLength ==
    \A k \in 1..Len(payloads) :
        LET d == Source(k).data
        IN  /\ Len(payloads[k]) >= Len(d)
            /\ IF Len(d) > 3
               THEN FramePart(k) = StartCode \o SubSeq(d, 5, Len(d))
               ELSE FramePart(k) = d

\* C15: the session has one Configuration Packet, computed from the extra-data
\* before the first frame is published: what precedes the frame part in every
\* payload published for a random access point, the first included, is
\* 00000001 || blob[p1:p2] || 00000001 || blob[p2:] when the first 7-marker p1
\* precedes the first 8-marker p2, and is empty otherwise.
C15_ConfigPacketFromExtraData ==
    \A k \in 1..Len(payloads) :
        Source(k).key =>
            /\ Len(payloads[k]) >= Len(Source(k).data)
            /\ ConfigPart(k) = ConfigurationPacket(extra_data)

\* Frames handed to tx.send so far.
Handed == Len(published) + sendErrors

VideoStep == nvideo' = nvideo + 1
OtherStep == nother' = nother + 1

\* The accepted frames are frames taken from the transport, in arrival order,
\* none twice, each with all the bytes of its payload.
InArrivalOrder ==
    /\ Len(payloads) = Len(published)
    /\ \A k \in 1..Len(published) :
          /\ published[k] \in 1..nvideo
          /\ payloads[k] = videoFrames[published[k]].data
          /\ \A j \in 1..(k - 1) : published[j] < published[k]

\* C16 as amended: each video frame taken from the transport is handed to
\* tx.send exactly once, whole and in arrival order, before the next item is
\* awaited; the channel accepts it unless no receiver exists at all, in which
\* case it is dropped; an item of another kind is never sent, does not end the
\* loop and leaves the sent frames as they are.
C16_EachFrameSentOnceInOrder ==
    [][/\ VideoStep =>
             /\ pc = "loop" /\ item = NoItem
             /\ Handed = nvideo
             /\ pc' = "publish"
             /\ item' = [kind |-> "video", seq |-> nvideo + 1]
             /\ UNCHANGED <<published, payloads, sendErrors>>
       /\ PublishStep =>
             /\ item.seq = nvideo
             /\ Handed' = Handed + 1
             /\ pc' = "loop" /\ item' = NoItem /\ r' = "none"
             /\ IF NoReceiver
                THEN UNCHANGED <<published, payloads>>
                ELSE /\ published' = Append(published, item.seq)
                     /\ payloads' = Append(payloads, videoFrames[item.seq].data)
       /\ ~PublishStep => UNCHANGED <<published, payloads, sendErrors>>
       /\ OtherStep =>
             /\ pc = "loop" /\ pc' = "loop" /\ r' = "none" /\ ~closed'
             /\ UNCHANGED <<published, payloads, sendErrors, nvideo, item>>
       /\ InArrivalOrder']_vars

\* C16 witness: two frames were accepted, an item of another kind was skipped,
\* a third frame was dropped for want of a receiver, and the loop goes on.
C16_Witness ==
    /\ published = <<1, 2>>
    /\ nother = 1
    /\ sendErrors = 1
    /\ pc = "loop" /\ r = "none"

\* C16 as stated: every video frame taken from the transport is published,
\* once and in arrival order.
C16_Original ==
    /\ Len(published) = nvideo - (IF pc = "publish" THEN 1 ELSE 0)
    /\ \A k \in 1..Len(published) : published[k] = k

\* The requests made to the session, teardown apart.
SessionCalls == SelectSeq(calls, LAMBDA c : c.op # "teardown")

NegotiationSteps == <<"describe", "setup", "play">>
NegotiationErrors == {"Err:describe", "Err:novideo", "Err:setup", "Err:play"}
NothingReceived ==
    nvideo = 0 /\ nother = 0 /\ item = NoItem /\ published = <<>> /\ sendErrors = 0

\* C17: the session is asked describe, setup, play in that order, each once at
\* most, the video sub-stream being selected between describe and setup, and
\* items are taken only after play succeeded; a step that fails is the last
\* one: run_inner returns its error, nothing is asked again but teardown, and
\* no item is taken and no frame published.
C17_NegotiationOrderNoRetry ==
    /\ Len(SessionCalls) <= 3
    /\ \A k \in 1..Len(SessionCalls) :
          /\ SessionCalls[k].op = NegotiationSteps[k]
          /\ (k < Len(SessionCalls) => SessionCalls[k].ok)
          /\ (~SessionCalls[k].ok =>
                 /\ r = "Err:" \o SessionCalls[k].op
                 /\ pc \in {"teardown", "return", "main", "exited"}
                 /\ NothingReceived)
    /\ (pc = "describe" => SessionCalls = <<>>)
    /\ (pc = "position" => Len(SessionCalls) = 1 /\ video_stream = 0)
    /\ (pc = "setup" => Len(SessionCalls) = 1 /\ video_stream # 0)
    /\ (pc = "play" => Len(SessionCalls) = 2 /\ video_stream # 0)
    /\ (pc \in {"loop", "publish"} => Len(SessionCalls) = 3 /\ SessionCalls[3].ok)
    /\ (~NothingReceived => Len(SessionCalls) = 3 /\ SessionCalls[3].ok)
    /\ (r \in NegotiationErrors =>
           /\ NothingReceived
           /\ pc \in {"teardown", "return", "main", "exited"}
           /\ IF r = "Err:novideo"
              THEN Len(SessionCalls) = 1 /\ SessionCalls[1].ok
              ELSE ~SessionCalls[Len(SessionCalls)].ok
           /\ ret \in {"none", r})

\* C17 witness: setup failed after describe and the selection; the run was
\* torn down and returned the error, with no play and no frame.
C17_Witness ==
    /\ r = "Err:setup"
    /\ Len(SessionCalls) = 2
    /\ video_stream = 2
    /\ Len(calls) = 3
    /\ exit = "status1"

\* The controller's Streaming state: the select! loop, the process alive.
Streaming == pc \in {"loop", "publish"} /\ exit = "running"
SigintStep == sigints' = sigints + 1

\* A stop signal the loop has yet to observe.
StopPending == stop = "fired" /\ Streaming

\* C18: a SIGINT raised while Streaming is pending from then on until the loop
\* observes it, and a run with a stop pending leaves Streaming in the end,
\* however many frames arrive meanwhile.
C18_StopRaisedLeavesStreaming ==
    /\ [][(SigintStep /\ Streaming) => (stop' = "fired" \/ ~Streaming')]_vars
    /\ [][(StopPending /\ Streaming') => StopPending']_vars
    /\ StopPending ~> ~Streaming

\* The part of C18 that holds: a stop signal received by the registered
\* listener stays pending and ends Streaming.
StopPendingLeavesStreaming ==
    /\ [][(StopPending /\ Streaming') => StopPending']_vars
    /\ StopPending ~> ~Streaming

\* The controller's state. Idle: run_inner has yet to ask describe, the step
\* that starts the negotiation and may fail it; Negotiating: up to play.
ControllerState ==
    IF r = "Ok" THEN "Stopped"
    ELSE IF r # "none" THEN "Failed"
    ELSE IF pc \in {"loop", "publish"} THEN "Streaming"
    ELSE IF pc = "describe" THEN "Idle"
    ELSE "Negotiating"

ControllerNext(st) ==
    CASE st = "Idle" -> {"Idle", "Negotiating", "Failed"}
      [] st = "Negotiating" -> {"Negotiating", "Streaming", "Failed"}
      [] st = "Streaming" -> {"Streaming", "Stopped", "Failed"}
      [] OTHER -> {st}

\* C19: the controller goes Idle, Negotiating, Streaming in that order and
\* never back, Stopped and Failed are final, and Stopped is entered only from
\* Streaming, by the stop branch of select!; while Idle or Negotiating the run
\* observes no stop signal, whether or not a SIGINT is raised. (A SIGINT with
\* no handler installed ends the process, not the run.)
C19_StoppedOnlyFromStreaming ==
    [][/\ ControllerState' \in ControllerNext(ControllerState)
       /\ (ControllerState' = "Stopped" /\ ControllerState # "Stopped") =>
             /\ ControllerState = "Streaming"
             /\ pc = "loop" /\ stop = "fired"
             /\ stopSeen'.seen /\ ~stopSeen.seen
       /\ ControllerState \in {"Idle", "Negotiating"} =>
             /\ ~stopSeen'.seen
             /\ r' # "Ok"
             /\ (SigintStep /\ exit' = "running" =>
                    ControllerState' = ControllerState /\ pc' = pc)]_vars

\* C19 witness: a SIGINT was raised while the run was negotiating; the run went
\* on and is about to ask play.
C19_Witness ==
    /\ pc = "play"
    /\ sigints = 1
    /\ exit = "running"
    /\ ControllerState = "Negotiating"
    /\ ~stopSeen.seen

\* The place of frame v in the published sequence, 0 if it was not published.
PublishedAt(v) ==
    IF \E p \in 1..Len(published) : published[p] = v
    THEN CHOOSE p \in 1..Len(published) : published[p] = v
    ELSE 0

====
